---- MODULE Spec2Model ----
(***************************************************************************)
(* Universal Asset Browser: the shared backend process and the clients     *)
(* that start it, register with it and shut it down.                        *)
(*                                                                         *)
(* Server side   src/uab/backend/server.py                                 *)
(* Client side   src/uab/runner.py, src/uab/frontend/main_window.py,       *)
(*               src/uab/frontend/main_widget.py,                          *)
(*               src/uab/core/base_presenter.py,                           *)
(*               src/uab/backend/asset_service.py                          *)
(***************************************************************************)
EXTENDS Integers, Sequences, FiniteSets, TLC

(***************************************************************************)
(* Bounds of the model.                                                    *)
(***************************************************************************)
\* Polling periods of _wait_for_server that fit into its timeout.
MaxWaitPolls == 2
\* Shutdown threads alive in one backend process at a time.
MaxThreads == 2
\* Backend processes spawned and not yet listening at a time.
MaxProcs == 2
\* Browser panels a Houdini session has open at a time.
MaxWidgets == 2
\* Rows in one list answer of the backend (GET /assets, GET /assets/search).
MaxListed == 1
\* Files in an imported directory.
MaxFiles == 3
\* Changes of the search text in one behaviour.
MaxChanges == 3
\* Pixels of an image file.
MaxPixels == 2

(***************************************************************************)
(* Client ids have the form "{pid}_{dcc}" (runner.py:24). One standalone   *)
(* desktop process and one Houdini session.                                *)
(***************************************************************************)
ClientIds == {"101_desktop", "202_hou"}

\* runner.py:149-155  _get_current_dcc
GetCurrentDcc(c) == IF c = "202_hou" THEN "hou" ELSE "desktop"

\* Which path started a shutdown thread (server.py:51 and server.py:63).
Origins == {"unregister", "shutdown"}

VARIABLES
    \* ---- backend processes ----
    alive,          \* a backend process owns the port and serves requests
    starting,       \* number of spawned backend processes not yet listening
    clients,        \* server.py:25  the dict `clients`, as its keys in insertion order
    sleeping,       \* per origin: threads inside time.sleep (server.py:57)
    awake,          \* per origin: threads past time.sleep, about to os.kill (server.py:58)
    terminated,     \* how the last backend ended, while no backend serves
    conn,           \* per client: its HTTP request to the backend and the handler's position
    \* ---- history of the serving backend process ----
    lastCall,       \* per id: the last register/unregister the event loop applied
    afterPop,       \* per id: the dict as unregister's clients.pop left it
    shutdownCalled, \* POST /shutdown was handled by the serving process
    \* ---- client processes ----
    pc,             \* per client: position in run() / the close handlers
    elapsed,        \* per client: polling periods spent in _wait_for_server
    server_proc,    \* per client: _start_server's server_proc during start-up
    unregistered,   \* per client: MainWindow._unregistered
    widgets,        \* per client: MainWidget instances open
    probed,         \* per client: the liveness probe that succeeded in this start-up
    \* ---- asset objects of a client (core/assets.py, frontend/detail.py) ----
    current_asset,  \* Detail.current_asset: the asset object the operations act on
    last_call,      \* the last operation applied: its arguments, request and outcome
    \* ---- directory import (core/base_presenter.py) ----
    listing,        \* the files root_path.rglob('*') yields, in its order
    import_log,     \* what the last on_import_asset did
    \* ---- search box (core/base_presenter.py) ----
    search          \* the debounce timer, the pending text, the searches issued

vars == <<alive, starting, clients, sleeping, awake, terminated, conn,
          lastCall, afterPop, shutdownCalled,
          pc, elapsed, server_proc, unregistered, widgets, probed,
          current_asset, last_call, listing, import_log, search>>

serverVars == <<alive, starting, clients, sleeping, awake, terminated,
                lastCall, afterPop, shutdownCalled>>
clientVars == <<pc, elapsed, server_proc, unregistered, widgets, probed>>
assetVars == <<current_asset, last_call, listing, import_log, search>>

(***************************************************************************)
(* The dict `clients` (server.py:25). Only its keys are ever read          *)
(* (list(clients.keys()), `not clients`); the {"time": ...} value stored   *)
(* with a key is never read and is left out.                               *)
(***************************************************************************)
Keys(d) == {d[i] : i \in DOMAIN d}

\* server.py:40  clients[cid] = {...}: overwrite in place, or insert at the end
DictSet(d, k) == IF k \in Keys(d) THEN d ELSE Append(d, k)

\* server.py:49  clients.pop(cid, None)
DictPop_Clear(d, k) == << >>
DictPop(d, k) == SelectSeq(d, LAMBDA x : x # k)

\* server.py:50  `not clients`
NotClients_Always(d) == TRUE
NotClients_Never(d) == FALSE
NotClients(d) == Len(d) = 0

TotalThreads == sleeping["unregister"] + sleeping["shutdown"]
                + awake["unregister"] + awake["shutdown"]

\* Handlers that have run clients.pop and not yet decided on the thread.
PendingChecks == Cardinality({c \in ClientIds : conn[c] = "unreg_run"})

\* Room for one more shutdown thread (bound of the model).
ThreadBudgetLeft == TotalThreads + PendingChecks < MaxThreads

\* A coroutine is between its first and its last statement.
HandlerRunning == \E c \in ClientIds : conn[c] \in {"reg_run", "unreg_run"}

\* server.py:37, server.py:45: register and unregister are `async def` with no
\* await: the event loop runs one of them to its return before it starts another.
EventLoopFree_Threaded == TRUE
EventLoopFree == ~HandlerRunning

NoThreads == [o \in Origins |-> 0]

\* No backend has been ended by a shutdown thread since the last one started.
NotTerminated == [by |-> "none", registered |-> {}]

\* Python's None.
None == "None"

\* No operation on an asset object has been applied.
NoCall == [op |-> "none"]

\* on_import_asset has not run.
NoImport == [done |-> FALSE]

\* base_presenter.py:306-320  a presenter on which on_search_changed was never
\* called: no timer yet, _pending_search_text read as "" (getattr's default).
\* sent are the texts search_assets was called with. typed, since and bursts
\* are history: the texts the box changed to, the time since the last change
\* (up to the delay), and the number of changes that found no timer running.
NoSearch ==
    [active |-> FALSE, remaining |-> 0, pending |-> "", sent |-> << >>,
     typed |-> << >>, since |-> 0, bursts |-> 0]

(***************************************************************************)
(* Initial state: no backend, no client started.                           *)
(***************************************************************************)
LifecycleInit ==
    /\ alive = FALSE
    /\ starting = 0
    /\ clients = << >>
    /\ sleeping = NoThreads
    /\ awake = NoThreads
    /\ terminated = NotTerminated
    /\ conn = [c \in ClientIds |-> "none"]
    /\ lastCall = [c \in ClientIds |-> "none"]
    /\ afterPop = [c \in ClientIds |-> << >>]
    /\ shutdownCalled = FALSE
    /\ pc = [c \in ClientIds |-> "idle"]
    /\ elapsed = [c \in ClientIds |-> 0]
    /\ server_proc = [c \in ClientIds |-> "None"]
    /\ unregistered = [c \in ClientIds |-> FALSE]
    /\ widgets = [c \in ClientIds |-> 0]
    /\ probed = [c \in ClientIds |-> "none"]
    /\ search = NoSearch

\* No asset object is looked at and nothing is imported.
Init ==
    /\ LifecycleInit
    /\ current_asset = None
    /\ last_call = NoCall
    /\ listing = << >>
    /\ import_log = NoImport

(***************************************************************************)
(* The lifecycle surface of the backend as functions of what a caller can   *)
(* tell of it: the dict, and whether a shutdown thread has been started     *)
(* (the process is then ended after the thread's sleep).                    *)
(***************************************************************************)
Surface == [clients |-> clients, stopping |-> TotalThreads > 0]

\* server.py:28-33
get_clients(s) == s

\* server.py:36-41
register_Append(s, cid) == [s EXCEPT !.clients = Append(@, cid)]
register(s, cid) == [s EXCEPT !.clients = DictSet(@, cid)]

\* server.py:44-52
unregister(s, cid) ==
    [clients |-> DictPop(s.clients, cid),
     stopping |-> s.stopping \/ NotClients(DictPop(s.clients, cid))]

\* server.py:61-64
shutdown(s) == [s EXCEPT !.stopping = TRUE]

(***************************************************************************)
(* Backend process                                                         *)
(***************************************************************************)

\* server.py:13-25: a spawned process imports the module (clients = {}) and
\* uvicorn binds the port; it then serves.
ServerListen ==
    /\ starting > 0
    /\ ~alive
    /\ starting' = starting - 1
    /\ alive' = TRUE
    /\ clients' = << >>
    /\ sleeping' = NoThreads
    /\ awake' = NoThreads
    /\ lastCall' = [c \in ClientIds |-> "none"]
    /\ afterPop' = [c \in ClientIds |-> << >>]
    /\ shutdownCalled' = FALSE
    /\ terminated' = NotTerminated
    /\ UNCHANGED conn
    /\ UNCHANGED clientVars
    /\ UNCHANGED assetVars

\* A spawned process ends before it serves: the port is taken by the serving
\* backend (uvicorn cannot bind), or the interpreter fails to start it.
ServerStartFails ==
    /\ starting > 0
    /\ starting' = starting - 1
    /\ UNCHANGED <<alive, clients, sleeping, awake, terminated, conn,
                   lastCall, afterPop, shutdownCalled>>
    /\ UNCHANGED clientVars
    /\ UNCHANGED assetVars

\* server.py:28-33  get_clients: return {"clients": list(clients.keys())}. It
\* assigns nothing; a plain `def`, served from the thread pool at any time.
GetClients ==
    /\ alive
    /\ UNCHANGED vars

\* server.py:36-40  register: cid = payload.get("client_id"); clients[cid] = {...}
RegisterSet(c) ==
    /\ alive
    /\ conn[c] = "reg_sent"
    /\ EventLoopFree
    /\ clients' = DictSet(clients, c)
    /\ lastCall' = [lastCall EXCEPT ![c] = "register"]
    /\ conn' = [conn EXCEPT ![c] = "reg_run"]
    /\ UNCHANGED <<alive, starting, sleeping, awake, terminated, afterPop,
                   shutdownCalled>>
    /\ UNCHANGED clientVars
    /\ UNCHANGED assetVars

\* server.py:41  return {"status": "registered", ...}
RegisterReturn(c) ==
    /\ alive
    /\ conn[c] = "reg_run"
    /\ conn' = [conn EXCEPT ![c] = "ok"]
    /\ UNCHANGED serverVars
    /\ UNCHANGED clientVars
    /\ UNCHANGED assetVars

\* server.py:44-49  unregister: cid = payload.get("client_id"); clients.pop(cid, None)
UnregisterPop(c) ==
    /\ alive
    /\ conn[c] = "unreg_sent"
    /\ EventLoopFree
    /\ ThreadBudgetLeft
    /\ clients' = DictPop(clients, c)
    /\ lastCall' = [lastCall EXCEPT ![c] = "unregister"]
    /\ afterPop' = [afterPop EXCEPT ![c] = DictPop(clients, c)]
    /\ conn' = [conn EXCEPT ![c] = "unreg_run"]
    /\ UNCHANGED <<alive, starting, sleeping, awake, terminated, shutdownCalled>>
    /\ UNCHANGED clientVars
    /\ UNCHANGED assetVars

\* server.py:50-52  if not clients: threading.Thread(target=_shutdown_after_time).start()
\*                  return {"status": "ok", ...}
UnregisterCheck(c) ==
    /\ alive
    /\ conn[c] = "unreg_run"
    /\ sleeping' = IF NotClients(clients)
                   THEN [sleeping EXCEPT !["unregister"] = @ + 1]
                   ELSE sleeping
    /\ afterPop' = [afterPop EXCEPT ![c] = << >>]
    /\ conn' = [conn EXCEPT ![c] = "ok"]
    /\ UNCHANGED <<alive, starting, clients, awake, terminated, lastCall,
                   shutdownCalled>>
    /\ UNCHANGED clientVars
    /\ UNCHANGED assetVars

\* server.py:61-64  shutdown: a plain `def`, served from the thread pool, whatever
\* the event loop is doing. No client of the repository calls it.
Shutdown_OnlyIfEmpty ==
    /\ alive
    /\ ThreadBudgetLeft
    /\ sleeping' = IF NotClients(clients)
                   THEN [sleeping EXCEPT !["shutdown"] = @ + 1]
                   ELSE sleeping
    /\ shutdownCalled' = TRUE
    /\ UNCHANGED <<alive, starting, clients, awake, terminated, conn,
                   lastCall, afterPop>>
    /\ UNCHANGED clientVars
    /\ UNCHANGED assetVars
Shutdown ==
    /\ alive
    /\ ThreadBudgetLeft
    /\ sleeping' = [sleeping EXCEPT !["shutdown"] = @ + 1]
    /\ shutdownCalled' = TRUE
    /\ UNCHANGED <<alive, starting, clients, awake, terminated, conn,
                   lastCall, afterPop>>
    /\ UNCHANGED clientVars
    /\ UNCHANGED assetVars

\* server.py:57  time.sleep(timer) returns: the grace delay of this thread is over.
SleepReturns(o) ==
    /\ alive
    /\ sleeping[o] > 0
    /\ sleeping' = [sleeping EXCEPT ![o] = @ - 1]
    /\ awake' = [awake EXCEPT ![o] = @ + 1]
    /\ UNCHANGED <<alive, starting, clients, terminated, conn, lastCall,
                   afterPop, shutdownCalled>>
    /\ UNCHANGED clientVars
    /\ UNCHANGED assetVars

\* The thread whose SIGTERM may end the process.
CanKill(o) == awake[o] > 0

\* server.py:58  os.kill(os.getpid(), signal.SIGTERM): uvicorn leaves its loop
\* between two handlers and the process exits, with all its threads. Requests
\* that no handler has begun are dropped.
Terminate(o) ==
    /\ alive
    /\ CanKill(o)
    /\ ~HandlerRunning
    /\ alive' = FALSE
    /\ terminated' = [by |-> o, registered |-> Keys(clients)]
    /\ clients' = << >>
    /\ lastCall' = [c \in ClientIds |-> "none"]
    /\ shutdownCalled' = FALSE
    /\ sleeping' = NoThreads
    /\ awake' = NoThreads
    /\ conn' = [c \in ClientIds |->
                  IF conn[c] \in {"reg_sent", "unreg_sent"} THEN "err" ELSE conn[c]]
    /\ UNCHANGED <<starting, afterPop>>
    /\ UNCHANGED clientVars
    /\ UNCHANGED assetVars

(***************************************************************************)
(* Client process: runner.run() and the close handlers of the GUI          *)
(***************************************************************************)

\* Positions at which no call of the client is in progress.
Resting == {"idle", "gui", "exited", "startup_error", "register_error"}

\* runner.py:96-101  _is_server_alive: a GET answered with a status below 500;
\* a refused connection or a timeout is False. Only a listening backend answers.
IsServerAlive == alive

\* runner.py:107  while time.time() - start < timeout
LoopCondition_Never(e) == FALSE
LoopCondition(e) == e < MaxWaitPolls

\* runner.py:89-93  if not _wait_for_server(...): raise RuntimeError(...)
\*                  return server_proc
AfterWait_NoRaise(reachable) == "register"
AfterWait(reachable) == IF reachable THEN "register" ELSE "startup_error"

\* The position after a panel of a Houdini session has closed.
RestAfterClose(n) == IF n > 0 THEN "gui" ELSE "idle"

\* runner.py:18-22  run() is called: a desktop launch is a new process; a
\* Houdini session calls run() once per panel it opens (runner.py:30-34).
Run(c) ==
    /\ pc[c] \in Resting
    /\ IF GetCurrentDcc(c) = "hou"
       THEN pc[c] # "exited" /\ widgets[c] < MaxWidgets
       ELSE pc[c] # "gui"
    /\ pc' = [pc EXCEPT ![c] = "probe"]
    /\ probed' = [probed EXCEPT ![c] = "none"]
    /\ elapsed' = [elapsed EXCEPT ![c] = 0]
    /\ server_proc' = [server_proc EXCEPT ![c] = "None"]
    /\ UNCHANGED <<unregistered, widgets, conn>>
    /\ UNCHANGED serverVars
    /\ UNCHANGED assetVars

\* runner.py:44-46  _start_server: if _is_server_alive(url): return None
StartServerProbe(c) ==
    /\ pc[c] = "probe"
    /\ IF IsServerAlive
       THEN /\ pc' = [pc EXCEPT ![c] = "register"]
            /\ probed' = [probed EXCEPT ![c] = "first"]
       ELSE /\ pc' = [pc EXCEPT ![c] = "spawn"]
            /\ UNCHANGED probed
    /\ UNCHANGED <<elapsed, server_proc, unregistered, widgets, conn>>
    /\ UNCHANGED serverVars
    /\ UNCHANGED assetVars

\* runner.py:48-86  server_proc = subprocess.Popen(cmd, ...), detached
StartServerSpawn(c) ==
    /\ pc[c] = "spawn"
    /\ starting < MaxProcs
    /\ starting' = starting + 1
    /\ server_proc' = [server_proc EXCEPT ![c] = "Popen"]
    /\ pc' = [pc EXCEPT ![c] = "wait"]
    /\ UNCHANGED <<elapsed, unregistered, widgets, probed, conn>>
    /\ UNCHANGED <<alive, clients, sleeping, awake, terminated, lastCall,
                   afterPop, shutdownCalled>>
    /\ UNCHANGED assetVars

\* runner.py:104-111  _wait_for_server, one turn of its loop, and what
\* _start_server does with its result (runner.py:89-93)
WaitForServer(c) ==
    /\ pc[c] = "wait"
    /\ IF ~LoopCondition(elapsed[c])
       THEN /\ pc' = [pc EXCEPT ![c] = AfterWait(FALSE)]
            /\ UNCHANGED <<elapsed, probed>>
       ELSE IF IsServerAlive
            THEN /\ pc' = [pc EXCEPT ![c] = AfterWait(TRUE)]
                 /\ probed' = [probed EXCEPT ![c] = "wait"]
                 /\ elapsed' = [elapsed EXCEPT ![c] = 0]
            ELSE /\ elapsed' = [elapsed EXCEPT ![c] = @ + 1]
                 /\ UNCHANGED <<pc, probed>>
    /\ UNCHANGED <<server_proc, unregistered, widgets, conn>>
    /\ UNCHANGED serverVars
    /\ UNCHANGED assetVars

\* runner.py:27-28  requests.post(".../register_client", ...), outside any try:
\* a refused connection raises out of run()
SendRegister(c) ==
    /\ pc[c] = "register"
    /\ IF alive
       THEN /\ conn' = [conn EXCEPT ![c] = "reg_sent"]
            /\ pc' = [pc EXCEPT ![c] = "reg_wait"]
            /\ UNCHANGED <<probed, server_proc>>
       ELSE /\ pc' = [pc EXCEPT ![c] = "register_error"]
            /\ probed' = [probed EXCEPT ![c] = "none"]
            /\ server_proc' = [server_proc EXCEPT ![c] = "None"]
            /\ UNCHANGED conn
    /\ UNCHANGED <<elapsed, unregistered, widgets>>
    /\ UNCHANGED serverVars
    /\ UNCHANGED assetVars

\* runner.py:27-37 the post returns, or raises when the connection was dropped;
\* runner.py:126-144 _start_gui builds the MainWidget (and, on the desktop, the
\* MainWindow: main_window.py:12-21). The start-up of this run() is over.
RegisterReply(c) ==
    /\ pc[c] = "reg_wait"
    /\ conn[c] \in {"ok", "err"}
    /\ conn' = [conn EXCEPT ![c] = "none"]
    /\ probed' = [probed EXCEPT ![c] = "none"]
    /\ server_proc' = [server_proc EXCEPT ![c] = "None"]
    /\ IF conn[c] = "ok"
       THEN /\ pc' = [pc EXCEPT ![c] = "gui"]
            /\ widgets' = [widgets EXCEPT ![c] = @ + 1]
            /\ unregistered' = [unregistered EXCEPT ![c] = FALSE]
       ELSE /\ pc' = [pc EXCEPT ![c] = "register_error"]
            /\ UNCHANGED <<widgets, unregistered>>
    /\ UNCHANGED elapsed
    /\ UNCHANGED serverVars
    /\ UNCHANGED assetVars

\* runner.py:114-123  unregister_client (asset_service.py:172-178 is the same):
\* the post inside try/except RequestException. `waiting` is the position while
\* the request is out, `done` the position after a refused connection.
PostUnregister(c, waiting, done) ==
    IF alive
    THEN /\ conn' = [conn EXCEPT ![c] = "unreg_sent"]
         /\ pc' = [pc EXCEPT ![c] = waiting]
    ELSE /\ pc' = [pc EXCEPT ![c] = done]
         /\ UNCHANGED conn

\* main_window.py:23-34  MainWindow.closeEvent -> _unregister_if_needed
CloseEvent(c) ==
    /\ GetCurrentDcc(c) = "desktop"
    /\ pc[c] = "gui"
    /\ IF ~unregistered[c]
       THEN /\ unregistered' = [unregistered EXCEPT ![c] = TRUE]
            /\ PostUnregister(c, "unreg_close", "window_closed")
       ELSE /\ pc' = [pc EXCEPT ![c] = "window_closed"]
            /\ UNCHANGED <<unregistered, conn>>
    /\ UNCHANGED <<elapsed, server_proc, widgets, probed>>
    /\ UNCHANGED serverVars
    /\ UNCHANGED assetVars

\* runner.py:141-144  app.aboutToQuit -> win._unregister_if_needed(); app.exec()
\* returns. Reached after the window closed, or by QApplication.quit().
AboutToQuit_Unguarded(c) ==
    /\ GetCurrentDcc(c) = "desktop"
    /\ pc[c] \in {"gui", "window_closed"}
    /\ PostUnregister(c, "unreg_quit", "exited")
    /\ widgets' = [widgets EXCEPT ![c] = IF alive THEN @ ELSE 0]
    /\ UNCHANGED <<elapsed, server_proc, probed, unregistered>>
    /\ UNCHANGED serverVars
    /\ UNCHANGED assetVars
AboutToQuit(c) ==
    /\ GetCurrentDcc(c) = "desktop"
    /\ pc[c] \in {"gui", "window_closed"}
    /\ IF ~unregistered[c]
       THEN /\ unregistered' = [unregistered EXCEPT ![c] = TRUE]
            /\ PostUnregister(c, "unreg_quit", "exited")
            /\ widgets' = [widgets EXCEPT ![c] = IF alive THEN @ ELSE 0]
       ELSE /\ pc' = [pc EXCEPT ![c] = "exited"]
            /\ widgets' = [widgets EXCEPT ![c] = 0]
            /\ UNCHANGED <<unregistered, conn>>
    /\ UNCHANGED <<elapsed, server_proc, probed>>
    /\ UNCHANGED serverVars
    /\ UNCHANGED assetVars

\* main_widget.py:144-146, base_presenter.py:58-59: a panel of a Houdini session
\* closes: widget_closed -> on_widget_closed -> asset_service.unregister_client
WidgetClosed(c) ==
    /\ GetCurrentDcc(c) = "hou"
    /\ pc[c] \in Resting
    /\ widgets[c] > 0
    /\ PostUnregister(c, "unreg_widget", RestAfterClose(widgets[c] - 1))
    /\ widgets' = [widgets EXCEPT ![c] = IF alive THEN @ ELSE @ - 1]
    /\ UNCHANGED <<elapsed, server_proc, unregistered, probed>>
    /\ UNCHANGED serverVars
    /\ UNCHANGED assetVars

\* runner.py:118-123 / asset_service.py:174-178: the post returns or raises a
\* RequestException, which is caught; the close handler goes on.
UnregisterReply(c) ==
    /\ pc[c] \in {"unreg_close", "unreg_quit", "unreg_widget"}
    /\ conn[c] \in {"ok", "err"}
    /\ conn' = [conn EXCEPT ![c] = "none"]
    /\ pc' = [pc EXCEPT ![c] =
                CASE pc[c] = "unreg_close" -> "window_closed"
                  [] pc[c] = "unreg_quit" -> "exited"
                  [] OTHER -> RestAfterClose(widgets[c] - 1)]
    /\ widgets' = [widgets EXCEPT ![c] =
                CASE pc[c] = "unreg_close" -> @
                  [] pc[c] = "unreg_quit" -> 0
                  [] OTHER -> @ - 1]
    /\ UNCHANGED <<elapsed, server_proc, unregistered, probed>>
    /\ UNCHANGED serverVars
    /\ UNCHANGED assetVars

(***************************************************************************)
(* Asset objects (core/assets.py) and the gateway to the backend's REST    *)
(* API (backend/asset_service.py).                                         *)
(***************************************************************************)

\* A Python dict, as its items in insertion order: dict_set overwrites the value
\* of a present key in place and appends an absent one.
dict_keys(d) == {d[i][1] : i \in DOMAIN d}
dict_has(d, k) == k \in dict_keys(d)
dict_get(d, k) == d[CHOOSE i \in DOMAIN d : d[i][1] = k][2]
dict_set(d, k, v) ==
    IF dict_has(d, k)
    THEN [i \in DOMAIN d |-> IF d[i][1] = k THEN <<k, v>> ELSE d[i]]
    ELSE Append(d, <<k, v>>)
dict_del_All(d, k) == << >>
dict_del(d, k) == SelectSeq(d, LAMBDA e : e[1] # k)

\* A pathlib.Path: its stem, character by character, and its suffix.
MkPath(stem, suffix) == [stem |-> stem, suffix |-> suffix]

\* str.lower() / str.upper() on the characters and suffixes of the model.
Lower(s) ==
    CASE s = "K" -> "k"
      [] s = ".EXR" -> ".exr"
      [] s = ".HDR" -> ".hdr"
      [] OTHER -> s

\* The outcome of a call: the exception that left it, or its return value
\* (isNone: the value is None).
Raise(e) == [raised |-> e, isNone |-> TRUE, value |-> None]
Return(v) == [raised |-> None, isNone |-> FALSE, value |-> v]
ReturnNone == [raised |-> None, isNone |-> TRUE, value |-> None]

\* The path "".
EmptyPath == MkPath(<< >>, "")

\* Files of the model: rock.exr, rock_1k.exr, rock-2K.EXR, rock.4k.hdr, rock.png,
\* rock_1k.hdr, sky.hdr
rock == MkPath(<<"r">>, ".exr")
rock_1k == MkPath(<<"r", "_", "1", "k">>, ".exr")
rock_2K == MkPath(<<"r", "-", "2", "K">>, ".EXR")
rock_4k == MkPath(<<"r", ".", "4", "k">>, ".hdr")
rock_png == MkPath(<<"r">>, ".png")
rock_1k_hdr == MkPath(<<"r", "_", "1", "k">>, ".hdr")
sky == MkPath(<<"s">>, ".hdr")

\* Database ids (integers in the program; None is a possible value of the field).
AssetIds == {"17"}
LodLevels == {"1k", "2k"}
LodPaths == {rock_1k, rock_2K}
ColorSpaces == {"linear"}

\* assets.py:19-39  Asset.__init__, called without preview_image_file_path and
\* date_added (their default is None). name, description, author and
\* date_created are stored, written to the payload and read from it
\* (data.get(key)) exactly as date_added is, and are left out. A plain Asset
\* has no color_space, lods or current_lod attribute: the fields show their
\* Texture defaults and cls tells the class.
Asset(path, asset_id, tags) ==
    [cls |-> "Asset", id |-> asset_id, path |-> path, tags |-> tags,
     preview_image_file_path |-> None, date_added |-> None,
     color_space |-> None, lods |-> << >>, current_lod |-> None]

\* assets.py:124-136  Texture.__init__: super().__init__(name, path), then the
\* three attributes (lods or {}).
Texture(path, color_space, lods, current_lod) ==
    [Asset(path, None, << >>) EXCEPT
        !.cls = "Texture", !.color_space = color_space,
        !.lods = lods, !.current_lod = current_lod]

\* assets.py:165-169  HDRI.__init__: after Texture.__init__, `super().path`
\* looks `path` up on the classes above HDRI, where it is not defined (it is an
\* instance attribute): AttributeError, for every argument.
HDRI(path, color_space) == Raise("AttributeError")

\* assets.py:71-88  Asset.to_dict, inherited unchanged by Texture and HDRI.
to_dict(a) ==
    [id |-> a.id, path |-> a.path, tags |-> a.tags,
     preview_image_file_path |-> a.preview_image_file_path,
     date_added |-> a.date_added]

\* dict.pop(key, None) on a payload.
payload_pop(d, k) == [f \in DOMAIN d \ {k} |-> d[f]]

\* dict.get(key, default) on a payload.
payload_get(d, k, default) == IF k \in DOMAIN d THEN d[k] ELSE default

\* assets.py:107-121  Asset.to_api_payload
to_api_payload_KeepId(a, include_id) == to_dict(a)
to_api_payload(a, include_id) ==
    IF ~include_id THEN payload_pop(to_dict(a), "id") ELSE to_dict(a)

\* assets.py:41-69  Asset.from_dict: cls(name=..., path=..., asset_id=..., ...).
\* Texture.__init__ and HDRI.__init__ take no asset_id (nor tags, ...): for
\* these classes the call raises TypeError.
from_dict(cls, data) ==
    IF cls = "Asset"
    THEN Return([Asset(payload_get(data, "path", EmptyPath),
                       payload_get(data, "id", None),
                       payload_get(data, "tags", << >>)) EXCEPT
                   !.preview_image_file_path =
                       payload_get(data, "preview_image_file_path", None),
                   !.date_added = payload_get(data, "date_added", None)])
    ELSE Raise("TypeError")

\* assets.py:90-105  Asset.from_api_payload
from_api_payload(cls, data) == from_dict(cls, data)

\* isinstance(asset, Texture)
IsTexture(a) == a.cls \in {"Texture", "HDRI"}

\* assets.py:138-145  Texture.add_lod
add_lod_Replace(t, lod_level, lod_path) ==
    [t EXCEPT !.lods = <<<<lod_level, lod_path>>>>]
add_lod(t, lod_level, lod_path) ==
    [t EXCEPT !.lods = dict_set(@, lod_level, lod_path)]

\* assets.py:147-162  Texture.remove_lod: the texture it leaves and its return value
remove_lod_KeepCurrent(t, lod_level) ==
    IF dict_has(t.lods, lod_level)
    THEN [obj |-> [t EXCEPT !.lods = dict_del(@, lod_level)], value |-> TRUE]
    ELSE [obj |-> t, value |-> FALSE]
remove_lod(t, lod_level) ==
    IF dict_has(t.lods, lod_level)
    THEN [obj |-> [t EXCEPT !.lods = dict_del(@, lod_level),
                            !.current_lod = IF @ = lod_level THEN None ELSE @],
          value |-> TRUE]
    ELSE [obj |-> t, value |-> FALSE]

\* detail.py:422 calls asset.get_current_path(); neither Texture nor HDRI nor
\* Asset (assets.py:12-437) defines it: the attribute lookup raises.
get_current_path(t) == Raise("AttributeError")

(***************************************************************************)
(* AssetService (backend/asset_service.py)                                 *)
(***************************************************************************)

\* asset_service.py:15-37  _detect_asset_type
_detect_asset_type(data) ==
    IF payload_get(data, "path", EmptyPath) = EmptyPath
    THEN "Asset"
    ELSE IF Lower(payload_get(data, "path", EmptyPath).suffix) \in {".hdr", ".exr"}
         THEN "HDRI"
         ELSE "Asset"

\* asset_service.py:39-74  _build_asset_from_data (a null `lods` of the payload
\* is written as the empty dict)
_build_asset_from_data(data) ==
    IF _detect_asset_type(data) = "HDRI"
    THEN LET hdri == HDRI(payload_get(data, "path", EmptyPath),
                          payload_get(data, "color_space", None))
         IN  IF hdri.raised # None
             THEN hdri
             ELSE Return([hdri.value EXCEPT
                     !.id = payload_get(data, "id", None),
                     !.tags = payload_get(data, "tags", << >>),
                     !.preview_image_file_path =
                         payload_get(data, "preview_image_file_path", None),
                     !.date_added = payload_get(data, "date_added", None),
                     !.lods = payload_get(data, "lods", << >>),
                     !.current_lod = payload_get(data, "current_lod", None)])
    ELSE from_api_payload("Asset", data)

\* asset_service.py:76-78  _build_assets_from_response: the list comprehension
\* ends with the first exception.
_build_assets_from_response(payload) ==
    IF \E i \in DOMAIN payload : _build_asset_from_data(payload[i]).raised # None
    THEN Raise(_build_asset_from_data(
             payload[CHOOSE i \in DOMAIN payload :
                 /\ _build_asset_from_data(payload[i]).raised # None
                 /\ \A j \in 1..(i - 1) :
                      _build_asset_from_data(payload[j]).raised = None]).raised)
    ELSE Return([i \in DOMAIN payload |-> _build_asset_from_data(payload[i]).value])

\* What requests.get/post/put/delete, raise_for_status and response.json() give:
\* a requests.exceptions.RequestException (no connection, timeout, error
\* status), or the data of the answer.
Failed == [net |-> "fail"]
Answers(dataset) == {Failed} \cup {[net |-> "ok", data |-> d] : d \in dataset}

\* asset_service.py:80-89  get_assets
get_assets_NoCatch(answer) ==
    [sent |-> TRUE,
     out |-> IF answer.net = "fail" THEN Raise("RequestException")
             ELSE _build_assets_from_response(answer.data)]
get_assets(answer) ==
    [sent |-> TRUE,
     out |-> IF answer.net = "fail" THEN Return(<< >>)
             ELSE _build_assets_from_response(answer.data)]

\* asset_service.py:91-100  get_asset_by_id
get_asset_by_id(asset_id, answer) ==
    [sent |-> TRUE,
     out |-> IF answer.net = "fail" THEN ReturnNone
             ELSE _build_asset_from_data(answer.data)]

\* asset_service.py:102-112  search_assets
search_assets(text, answer) ==
    [sent |-> TRUE,
     out |-> IF answer.net = "fail" THEN Return(<< >>)
             ELSE _build_assets_from_response(answer.data)]

\* asset_service.py:118-138  add_asset_to_db
add_asset_to_db(asset, answer) ==
    [sent |-> TRUE,
     body |-> to_api_payload(asset, FALSE),
     out |-> IF answer.net = "fail" THEN ReturnNone
             ELSE _build_asset_from_data(answer.data)]

\* asset_service.py:140-145  remove_asset_from_db
remove_asset_from_db(asset_id, answer) ==
    [sent |-> TRUE, out |-> ReturnNone]

\* asset_service.py:147-169  update_asset
update_asset(asset, answer) ==
    IF asset.id = None
    THEN [sent |-> FALSE, out |-> ReturnNone]
    ELSE [sent |-> TRUE,
          body |-> to_api_payload(asset, FALSE),
          out |-> IF answer.net = "fail" THEN ReturnNone
                  ELSE _build_asset_from_data(answer.data)]

\* asset_service.py:180-253  create_asset_request_body, called without
\* preview_image_file_path as all its callers do; today is what
\* datetime.now().isoformat().split('T')[0] gives.
create_asset_request_body(asset_path, tags, lods, current_lod, color_space, today) ==
    IF Lower(asset_path.suffix) \in {".hdr", ".exr"}
    THEN LET hdri == HDRI(asset_path, color_space)
         IN  IF hdri.raised # None
             THEN hdri
             ELSE Return([hdri.value EXCEPT
                     !.id = None,
                     !.tags = tags,
                     !.preview_image_file_path = None,
                     !.date_added = today,
                     !.lods = IF lods # << >> THEN lods ELSE @,
                     !.current_lod = IF current_lod # None THEN current_lod ELSE @])
    ELSE Return([Asset(asset_path, None, tags) EXCEPT !.date_added = today])

(***************************************************************************)
(* The backend's routes (backend/app/api/routes.py). The table is the      *)
(* sequence of its rows; a JSON null of lods is written as the empty dict. *)
(***************************************************************************)

\* schemas.py:7-23  AssetCreate: the body of the request as pydantic reads it,
\* an absent key giving the default None.
AssetCreate(body) ==
    [path |-> body.path,
     tags |-> payload_get(body, "tags", << >>),
     preview_image_file_path |-> payload_get(body, "preview_image_file_path", None),
     date_added |-> payload_get(body, "date_added", None),
     lods |-> payload_get(body, "lods", << >>),
     current_lod |-> payload_get(body, "current_lod", None),
     color_space |-> payload_get(body, "color_space", None)]

\* routes.py:79-95  create_asset: models.Asset(...) is given eight columns,
\* the others (lods, current_lod, color_space) stay NULL; the row gets its id
\* at the commit. The table with the row added, and the row.
create_asset(db, asset) ==
    LET db_asset == [id |-> "17",
                     path |-> asset.path,
                     tags |-> asset.tags,
                     preview_image_file_path |-> asset.preview_image_file_path,
                     date_added |-> asset.date_added,
                     color_space |-> None, lods |-> << >>, current_lod |-> None]
    IN  [db |-> Append(db, db_asset), row |-> db_asset]

\* routes.py:65-72  get_asset: the first row with the id, or status 404
get_asset(db, asset_id) ==
    IF \E i \in DOMAIN db : db[i].id = asset_id
    THEN [net |-> "ok",
          data |-> db[CHOOSE i \in DOMAIN db :
                         /\ db[i].id = asset_id
                         /\ \A j \in 1..(i - 1) : db[j].id # asset_id]]
    ELSE Failed

(***************************************************************************)
(* The detail view (frontend/detail.py)                                    *)
(***************************************************************************)

\* detail.py:726  self.lod_combo.currentData(). The combo is created empty
\* (detail.py:257-260) and filled only by display_metadata at lines 518-534,
\* which a Texture never reaches (line 422 raises) and no other asset enters:
\* it has no item, and currentData() of an empty combo is None.
lod_combo_currentData == None

\* detail.py:409-425  display_metadata: the path whose preview is shown
display_metadata(asset) ==
    IF IsTexture(asset) THEN get_current_path(asset) ELSE Return(asset.path)

\* detail.py:562-621  save_metadata_changes. path_text is the text of path_edit,
\* list_lods the items of lod_list_widget, color_space_value the text of
\* color_space_edit (None when empty); the tags are taken as the asset has
\* them (the user does not edit them).
save_metadata_changes(asset, path_text, list_lods, color_space_value, today) ==
    LET updated_lods == IF IsTexture(asset) THEN list_lods ELSE << >>
        created == create_asset_request_body(
                       path_text, asset.tags, updated_lods, None,
                       IF IsTexture(asset) THEN color_space_value ELSE None,
                       today)
    IN  IF created.raised # None
        THEN created
        ELSE Return(
               IF /\ IsTexture(asset)
                  /\ IsTexture(created.value)
                  /\ asset.current_lod # None
               THEN [created.value EXCEPT
                       !.id = asset.id,
                       !.current_lod = IF dict_has(updated_lods, asset.current_lod)
                                       THEN asset.current_lod
                                       ELSE None]
               ELSE [created.value EXCEPT !.id = asset.id])

(***************************************************************************)
(* Directory import (core/base_presenter.py)                               *)
(***************************************************************************)

\* The characters the regular expression of base_presenter.py:80 tells apart.
Separators == {".", "_", "-"}
Digits == {"1", "2", "4"}

\* base_presenter.py:80-81  re.search(r'[._-](\d+k)$', stem, re.IGNORECASE): the
\* position of the separator that begins the match, or 0 when nothing matches.
resolution_match(stem) ==
    IF \E i \in DOMAIN stem :
          /\ stem[i] \in Separators
          /\ i + 1 < Len(stem)
          /\ \A j \in (i + 1)..(Len(stem) - 1) : stem[j] \in Digits
          /\ Lower(stem[Len(stem)]) = "k"
    THEN CHOOSE i \in DOMAIN stem :
          /\ stem[i] \in Separators
          /\ i + 1 < Len(stem)
          /\ \A j \in (i + 1)..(Len(stem) - 1) : stem[j] \in Digits
          /\ Lower(stem[Len(stem)]) = "k"
    ELSE 0

\* The string made of the given characters (the resolution tags of the model).
Join(chars) ==
    CASE chars = <<"1", "k">> -> "1k"
      [] chars = <<"2", "k">> -> "2k"
      [] chars = <<"4", "k">> -> "4k"
      [] chars = <<"1", "K">> -> "1K"
      [] chars = <<"2", "K">> -> "2K"
      [] chars = <<"4", "K">> -> "4K"
      [] OTHER -> "?"

\* base_presenter.py:69-91  _extract_base_name_and_resolution
_extract_base_name_and_resolution(file_path) ==
    IF resolution_match(file_path.stem) > 0
    THEN <<SubSeq(file_path.stem, 1, resolution_match(file_path.stem) - 1),
           Join([j \in 1..(Len(file_path.stem) - resolution_match(file_path.stem)) |->
                   Lower(file_path.stem[resolution_match(file_path.stem) + j])])>>
    ELSE <<file_path.stem, None>>

\* base_presenter.py:104-112  one turn of the loop of _group_files_by_lod
group_file(grouped, file_path) ==
    LET base_name == _extract_base_name_and_resolution(file_path)[1]
        resolution == _extract_base_name_and_resolution(file_path)[2]
        inner == IF dict_has(grouped, base_name)
                 THEN dict_get(grouped, base_name)
                 ELSE << >>
    IN  dict_set(grouped, base_name,
                 dict_set(inner, IF resolution # None THEN resolution ELSE "",
                          file_path))

\* base_presenter.py:93-114  _group_files_by_lod
RECURSIVE _group_files_by_lod(_)
_group_files_by_lod(file_paths) ==
    IF file_paths = << >>
    THEN << >>
    ELSE group_file(_group_files_by_lod(SubSeq(file_paths, 1, Len(file_paths) - 1)),
                    file_paths[Len(file_paths)])

\* base_presenter.py:144-162 and 167-171: the arguments of the call of
\* create_asset_request_body for one group
group_request(resolution_files) ==
    IF Len(resolution_files) > 1
       /\ \E i \in DOMAIN resolution_files : resolution_files[i][1] # ""
    THEN LET lods == SelectSeq(resolution_files, LAMBDA e : e[1] # "")
         IN  [path |-> IF dict_has(resolution_files, "")
                       THEN dict_get(resolution_files, "")
                       ELSE resolution_files[1][2],
              lods |-> lods,
              current_lod |-> IF lods # << >> THEN lods[1][1] ELSE None]
    ELSE [path |-> resolution_files[1][2], lods |-> << >>, current_lod |-> None]

\* base_presenter.py:142-173  the loop over the groups: each group's asset is
\* built and posted; the exception of a call ends on_import_asset. nets[i] is
\* what the network does with the i-th post; `created` counts the posts the
\* backend answered (add_asset_to_db swallows the others, its return value is
\* not looked at).
RECURSIVE import_groups(_, _, _, _)
import_groups(grouped, log, nets, today) ==
    IF grouped = << >> \/ log.raised # None
    THEN log
    ELSE LET request == group_request(grouped[1][2])
             built == create_asset_request_body(request.path, << >>,
                          request.lods, request.current_lod, None, today)
         IN  import_groups(Tail(grouped),
                 IF built.raised # None
                 THEN [log EXCEPT !.requests = Append(@, request),
                                  !.raised = built.raised]
                 ELSE [log EXCEPT !.requests = Append(@, request),
                                  !.assets = Append(@, built.value),
                                  !.posted = Append(@, to_api_payload(built.value, FALSE)),
                                  !.created = IF nets[Len(log.posted) + 1] = "ok"
                                              THEN @ + 1 ELSE @,
                                  !.imported_count = @ + 1],
                 nets, today)

\* base_presenter.py:128-136  filename.endswith('.hdr') or filename.endswith('.exr')
is_hdri_file(file_path) == Lower(file_path.suffix) \in {".hdr", ".exr"}

\* base_presenter.py:116-177  on_import_asset of a directory
on_import_asset(files, nets, today) ==
    import_groups(_group_files_by_lod(SelectSeq(files, is_hdri_file)),
                  [done |-> TRUE, source |-> "directory", requests |-> << >>,
                   assets |-> << >>, posted |-> << >>, created |-> 0,
                   imported_count |-> 0, raised |-> None,
                   skipped_count |-> Len(files) - Len(SelectSeq(files, is_hdri_file))],
                  nets, today)

\* base_presenter.py:178-187  on_import_asset of one file
on_import_file(asset_path, nets, today) ==
    import_groups(<<<<asset_path.stem, <<<<"", asset_path>>>>>>>>,
                  [done |-> TRUE, source |-> "file", requests |-> << >>,
                   assets |-> << >>, posted |-> << >>, created |-> 0,
                   imported_count |-> 0, raised |-> None, skipped_count |-> 0],
                  nets, today)

(***************************************************************************)
(* Operations on one asset object. The asset is any object the classes     *)
(* construct; the inputs of an operation are its arguments, the outcome of *)
(* the network and the data the backend answers with.                      *)
(***************************************************************************)
lifecycleVars == <<serverVars, conn, clientVars>>
importVars == <<listing, import_log>>

TagLists == {<< >>, <<"rock">>}
AssetPaths == {rock, rock_png}

\* The LOD dicts over LodLevels and LodPaths, in every insertion order.
LodDicts ==
    {<< >>}
    \cup {<<<<k, p>>>> : k \in LodLevels, p \in LodPaths}
    \cup {<<<<k[1], p[1]>>, <<k[2], p[2]>>>> :
            k \in {x \in LodLevels \X LodLevels : x[1] # x[2]},
            p \in LodPaths \X LodPaths}

\* What lod_list_widget holds in the model: no item or one.
ListLods == {<< >>} \cup {<<<<k, rock_1k>>>> : k \in LodLevels}

\* The dates of the model, and the preview file of an asset that has one.
Dates == {"2024-01-01", "2024-01-02"}
rock_jpg == "rock.jpg"

\* The preview_image_file_path and date_added of the assets of the model: as
\* Asset.__init__ leaves them, or as a row of the backend has them.
Stored == {<<None, None>>, <<rock_jpg, "2024-01-01">>}

\* Asset(...) objects.
PlainAssets ==
    {[Asset(p, i, t) EXCEPT !.preview_image_file_path = s[1], !.date_added = s[2]] :
        p \in AssetPaths, i \in AssetIds \cup {None}, t \in TagLists, s \in Stored}

\* Texture(...) objects whose current_lod is unset or one of their LODs, with
\* the attributes of Asset assigned afterwards.
Textures ==
    {[Texture(x[1], x[2], x[3], x[4]) EXCEPT
          !.id = y[1], !.tags = y[2],
          !.preview_image_file_path = y[3][1], !.date_added = y[3][2]] :
        x \in {z \in AssetPaths \X (ColorSpaces \cup {None}) \X LodDicts
                      \X (LodLevels \cup {None}) :
                  z[4] = None \/ dict_has(z[3], z[4])},
        y \in (AssetIds \cup {None}) \X TagLists \X Stored}

\* A row of the backend's table as the API returns it (schemas.py).
ServerData ==
    {[id |-> i, path |-> p, tags |-> << >>,
      preview_image_file_path |-> rock_jpg, date_added |-> "2024-01-01",
      color_space |-> None, lods |-> << >>, current_lod |-> None] :
        p \in AssetPaths, i \in AssetIds}

\* The list answers of the model: at most MaxListed rows.
ServerLists == UNION {[1..n -> ServerData] : n \in 0..MaxListed}

AssetInit ==
    /\ LifecycleInit
    /\ current_asset \in PlainAssets \cup Textures
    /\ last_call = NoCall
    /\ listing = << >>
    /\ import_log = NoImport

\* assets.py:107-121
ToApiPayload(include_id) ==
    /\ last_call' =
         [op |-> "to_api_payload", include_id |-> include_id,
          out |-> Return(to_api_payload(current_asset, include_id))]
    /\ UNCHANGED current_asset
    /\ UNCHANGED <<importVars, search>>
    /\ UNCHANGED lifecycleVars

\* assets.py:90-105: the asset's class builds an asset from the asset's payload
FromApiPayload ==
    /\ last_call' =
         [op |-> "from_api_payload",
          out |-> from_api_payload(current_asset.cls,
                                   to_api_payload(current_asset, TRUE))]
    /\ UNCHANGED current_asset
    /\ UNCHANGED <<importVars, search>>
    /\ UNCHANGED lifecycleVars

\* asset_service.py:39-74: the gateway builds an asset from the asset's payload
BuildAssetFromData ==
    /\ last_call' =
         [op |-> "_build_asset_from_data",
          out |-> _build_asset_from_data(to_api_payload(current_asset, TRUE))]
    /\ UNCHANGED current_asset
    /\ UNCHANGED <<importVars, search>>
    /\ UNCHANGED lifecycleVars

\* asset_service.py:80-89
GetAssets(answer) ==
    /\ last_call' =
         [op |-> "get_assets", net |-> answer.net, call |-> get_assets(answer)]
    /\ UNCHANGED current_asset
    /\ UNCHANGED <<importVars, search>>
    /\ UNCHANGED lifecycleVars

\* asset_service.py:91-100
GetAssetById(asset_id, answer) ==
    /\ last_call' =
         [op |-> "get_asset_by_id", net |-> answer.net,
          call |-> get_asset_by_id(asset_id, answer)]
    /\ UNCHANGED current_asset
    /\ UNCHANGED <<importVars, search>>
    /\ UNCHANGED lifecycleVars

\* asset_service.py:102-112
SearchAssets(answer) ==
    /\ last_call' =
         [op |-> "search_assets", net |-> answer.net,
          call |-> search_assets("rock", answer)]
    /\ UNCHANGED current_asset
    /\ UNCHANGED <<importVars, search>>
    /\ UNCHANGED lifecycleVars

\* asset_service.py:118-138
AddAssetToDb(answer) ==
    /\ last_call' =
         [op |-> "add_asset_to_db", net |-> answer.net,
          call |-> add_asset_to_db(current_asset, answer)]
    /\ UNCHANGED current_asset
    /\ UNCHANGED <<importVars, search>>
    /\ UNCHANGED lifecycleVars

\* asset_service.py:118-138 and 91-100 against routes.py:79-95 and 65-72: the
\* asset is posted to a backend with an empty table, which answers with the
\* row it made, and the asset with the id of the answer is fetched.
CreateThenGet ==
    LET created == create_asset(<< >>, AssetCreate(to_api_payload(current_asset, FALSE)))
    IN  /\ last_call' =
             [op |-> "create_asset",
              posted |-> add_asset_to_db(current_asset,
                                         [net |-> "ok", data |-> created.row]),
              call |-> get_asset_by_id(created.row.id,
                                       get_asset(created.db, created.row.id))]
        /\ UNCHANGED current_asset
        /\ UNCHANGED <<importVars, search>>
        /\ UNCHANGED lifecycleVars

\* asset_service.py:140-145, called with the asset's id (base_presenter.py:189-193)
RemoveAssetFromDb(answer) ==
    /\ current_asset.id # None
    /\ last_call' =
         [op |-> "remove_asset_from_db", net |-> answer.net,
          call |-> remove_asset_from_db(current_asset.id, answer)]
    /\ UNCHANGED current_asset
    /\ UNCHANGED <<importVars, search>>
    /\ UNCHANGED lifecycleVars

\* asset_service.py:147-169
UpdateAsset(answer) ==
    /\ last_call' =
         [op |-> "update_asset", net |-> answer.net,
          call |-> update_asset(current_asset, answer)]
    /\ UNCHANGED current_asset
    /\ UNCHANGED <<importVars, search>>
    /\ UNCHANGED lifecycleVars

\* assets.py:138-145
AddLod(lod_level, lod_path) ==
    /\ IsTexture(current_asset)
    /\ current_asset' = add_lod(current_asset, lod_level, lod_path)
    /\ last_call' = [op |-> "add_lod", lod_level |-> lod_level,
                     before |-> current_asset.lods]
    /\ UNCHANGED <<importVars, search>>
    /\ UNCHANGED lifecycleVars

\* assets.py:147-162. `undoes` tells whether the call before this one was
\* add_lod of the same level, and what the LOD dict was before that call.
RemoveLod(lod_level) ==
    /\ IsTexture(current_asset)
    /\ current_asset' = remove_lod(current_asset, lod_level).obj
    /\ last_call' = [op |-> "remove_lod", lod_level |-> lod_level,
                     value |-> remove_lod(current_asset, lod_level).value,
                     undoes |-> IF last_call.op = "add_lod"
                                THEN last_call.lod_level = lod_level
                                ELSE FALSE,
                     before |-> IF last_call.op = "add_lod"
                                THEN last_call.before
                                ELSE current_asset.lods]
    /\ UNCHANGED <<importVars, search>>
    /\ UNCHANGED lifecycleVars

\* detail.py:398-407  draw_details: current_asset = asset; display_metadata(asset)
DrawDetails ==
    /\ last_call' =
         [op |-> "display_metadata", out |-> display_metadata(current_asset)]
    /\ UNCHANGED current_asset
    /\ UNCHANGED <<importVars, search>>
    /\ UNCHANGED lifecycleVars

\* detail.py:720-734  _on_lod_changed: the assignment of line 730, then
\* display_metadata; save_clicked is emitted (main_widget.py:88,
\* base_presenter.py:222-223: update_asset) only if that returns.
OnLodChanged(answer) ==
    /\ IsTexture(current_asset)
    /\ current_asset' = [current_asset EXCEPT !.current_lod = lod_combo_currentData]
    /\ last_call' =
         [op |-> "_on_lod_changed",
          net |-> answer.net,
          out |-> display_metadata(current_asset'),
          call |-> IF display_metadata(current_asset').raised # None
                   THEN [sent |-> FALSE]
                   ELSE update_asset(current_asset', answer)]
    /\ UNCHANGED <<importVars, search>>
    /\ UNCHANGED lifecycleVars

\* detail.py:699-708  _on_save_clicked: save_metadata_changes, then the new
\* asset is kept and shown and save_clicked is emitted (update_asset). `saved`
\* tells whether save_metadata_changes returned an asset, `kept` what the
\* asset had before in the fields the view has no editor for.
OnSaveClicked(path_text, list_lods, color_space_value, today, answer) ==
    LET saved == save_metadata_changes(current_asset, path_text, list_lods,
                                       color_space_value, today)
    IN  /\ current_asset' = IF saved.raised # None THEN current_asset
                            ELSE saved.value
        /\ last_call' =
             [op |-> "_on_save_clicked",
              net |-> answer.net,
              saved |-> saved.raised = None,
              kept |-> [id |-> current_asset.id,
                        preview_image_file_path |->
                            current_asset.preview_image_file_path,
                        date_added |-> current_asset.date_added],
              out |-> IF saved.raised # None THEN saved
                      ELSE display_metadata(saved.value),
              call |-> IF saved.raised # None
                       THEN [sent |-> FALSE]
                       ELSE IF display_metadata(saved.value).raised # None
                            THEN [sent |-> FALSE]
                            ELSE update_asset(saved.value, answer)]
        /\ UNCHANGED <<importVars, search>>
        /\ UNCHANGED lifecycleVars

AssetNext ==
    \/ \E include_id \in BOOLEAN : ToApiPayload(include_id)
    \/ FromApiPayload
    \/ BuildAssetFromData
    \/ \E answer \in Answers(ServerLists) : GetAssets(answer)
    \/ \E asset_id \in AssetIds, answer \in Answers(ServerData) :
          GetAssetById(asset_id, answer)
    \/ \E answer \in Answers(ServerLists) : SearchAssets(answer)
    \/ \E answer \in Answers(ServerData) : AddAssetToDb(answer)
    \/ CreateThenGet
    \/ \E answer \in Answers({None}) : RemoveAssetFromDb(answer)
    \/ \E answer \in Answers(ServerData) : UpdateAsset(answer)
    \/ \E lod_level \in LodLevels, lod_path \in LodPaths : AddLod(lod_level, lod_path)
    \/ \E lod_level \in LodLevels : RemoveLod(lod_level)
    \/ DrawDetails
    \/ \E answer \in Answers(ServerData) : OnLodChanged(answer)
    \/ \E path_text \in AssetPaths, list_lods \in ListLods,
          color_space_value \in ColorSpaces \cup {None}, today \in Dates,
          answer \in Answers(ServerData) :
          OnSaveClicked(path_text, list_lods, color_space_value, today, answer)

AssetSpec == AssetInit /\ [][AssetNext]_vars

(***************************************************************************)
(* Import of a directory or of one file.                                   *)
(***************************************************************************)
ImportFiles == {rock, rock_1k, rock_2K, rock_4k, rock_png, rock_1k_hdr, sky}

\* What the network does with each post of an import: answered or failed.
ImportNets == [1..MaxFiles -> {"ok", "fail"}]

\* The listings of a directory: at most MaxFiles files, in any order.
Listings ==
    UNION {{f \in [1..n -> ImportFiles] :
              \A i, j \in 1..n : i # j => f[i] # f[j]} : n \in 0..MaxFiles}

ImportInit ==
    /\ LifecycleInit
    /\ current_asset = None
    /\ last_call = NoCall
    /\ listing \in Listings
    /\ import_log = NoImport

\* base_presenter.py:116-177  on_import_asset(asset_path), asset_path a directory
OnImportDirectory(nets, today) ==
    /\ import_log' = on_import_asset(listing, nets, today)
    /\ UNCHANGED <<listing, current_asset, last_call, search>>
    /\ UNCHANGED lifecycleVars

\* base_presenter.py:178-187  on_import_asset(asset_path), asset_path a file
OnImportFile(asset_path, nets, today) ==
    /\ import_log' = on_import_file(asset_path, nets, today)
    /\ UNCHANGED <<listing, current_asset, last_call, search>>
    /\ UNCHANGED lifecycleVars

ImportNext ==
    \/ \E nets \in ImportNets, today \in Dates : OnImportDirectory(nets, today)
    \/ \E asset_path \in ImportFiles, nets \in ImportNets, today \in Dates :
          OnImportFile(asset_path, nets, today)

ImportSpec == ImportInit /\ [][ImportNext]_vars

(***************************************************************************)
(* Previews: the decoders and the tone mapper of HDRI (core/assets.py),    *)
(* and the two views that show a preview.                                  *)
(***************************************************************************)

\* The channels an image file has: the keys of header["channels"] of an EXR
\* file, the planes cv2.imread gives of an HDR file.
ChannelSets ==
    {{"R", "G", "B"}, {"R", "G", "B", "Y"}, {"Y"}, {"A"}}

\* <<height, width>> of the image files of the model.
Shapes ==
    {x \in (1..MaxPixels) \X (1..MaxPixels) : x[1] * x[2] <= MaxPixels}

\* What is at a path: no file, a file no decoder reads, or an image.
DiskFiles ==
    {[exists |-> e, readable |-> FALSE, channels |-> {}, shape |-> <<1, 1>>] :
        e \in BOOLEAN}
    \cup {[exists |-> TRUE, readable |-> TRUE, channels |-> c, shape |-> x] :
            c \in ChannelSets, x \in Shapes}

\* float32 values, v being the value times 255: below 0, within the range,
\* above 1.0, and NaN, for which v is what the conversion to uint8, which is
\* undefined for NaN, makes of it on the build.
Floats ==
    {[nan |-> FALSE, v |-> n] : n \in {0 - 255, 128, 510}}
    \cup {[nan |-> TRUE, v |-> 77]}

\* What cv2's tonemap.process may return for an image of a shape: a float32
\* array of that shape, one value standing for the three planes of a pixel.
LdrArrays(shape) == [1..(shape[1] * shape[2]) -> Floats]

\* assets.py:171-196  _load_hdr: a BGR float32 array; a single plane is merged
\* three times, a fourth plane is cut off.
_load_hdr(file) ==
    IF ~file.readable
    THEN Raise("FileNotFoundError")
    ELSE Return([shape |-> file.shape,
                 planes |-> IF Cardinality(file.channels) = 1
                            THEN LET c == CHOOSE c \in file.channels : TRUE
                                 IN  <<c, c, c>>
                            ELSE <<"B", "G", "R">>])

\* assets.py:198-246  _load_exr: R, G, B when the header has all three, else Y
\* three times, else ValueError; the planes are stacked as BGR.
_load_exr(file) ==
    IF ~file.readable
    THEN Raise("FileNotFoundError")
    ELSE IF {"R", "G", "B"} \subseteq file.channels
         THEN Return([shape |-> file.shape, planes |-> <<"B", "G", "R">>])
         ELSE IF "Y" \in file.channels
              THEN Return([shape |-> file.shape, planes |-> <<"Y", "Y", "Y">>])
              ELSE Raise("ValueError")

\* assets.py:248-279  _tone_map: ldr is what tonemap.process(hdr) returned;
\* np.clip(ldr * 255, 0, 255) leaves NaN as it is, astype(np.uint8) cuts the
\* fraction off; cvtColor turns BGR into RGB.
_tone_map_NoCast(hdr, ldr) ==
    [shape |-> hdr.shape,
     planes |-> <<hdr.planes[3], hdr.planes[2], hdr.planes[1]>>,
     data |-> [i \in DOMAIN ldr |->
                 IF ldr[i].nan THEN ldr[i]
                 ELSE [nan |-> FALSE,
                       v |-> IF ldr[i].v < 0 THEN 0
                             ELSE IF ldr[i].v > 255 THEN 255 ELSE ldr[i].v]]]
_tone_map(hdr, ldr) ==
    [shape |-> hdr.shape,
     planes |-> <<hdr.planes[3], hdr.planes[2], hdr.planes[1]>>,
     data |-> [i \in DOMAIN ldr |->
                 [nan |-> FALSE,
                  v |-> IF ldr[i].nan THEN ldr[i].v % 256
                        ELSE IF ldr[i].v < 0 THEN 0
                             ELSE IF ldr[i].v > 255 THEN 255 ELSE ldr[i].v]]]

\* assets.py:281-336  _render_from_file: the decoder of the suffix, then
\* _tone_map; nothing is caught.
_render_from_file(input_path, file, ldr) ==
    LET hdr == IF Lower(input_path.suffix) = ".exr" THEN _load_exr(file)
               ELSE IF Lower(input_path.suffix) = ".hdr" THEN _load_hdr(file)
                    ELSE Raise("ValueError")
    IN  IF hdr.raised # None THEN hdr ELSE Return(_tone_map(hdr.value, ldr))

\* utils.py:30-72  hdri_to_pixmap_format: render_from_exr or render_from_hdr
\* (assets.py:338-404), which both call _render_from_file.
hdri_to_pixmap_format(input_path, file, ldr) ==
    IF Lower(input_path.suffix) \in {".exr", ".hdr"}
    THEN _render_from_file(input_path, file, ldr)
    ELSE Raise("ValueError")

\* thumbnail.py:169-187  _load_thumbnail_preview_from_file: the exception that
\* leaves it, the path given to the decoder, and the pixmap it returns (a null
\* pixmap is drawn as the placeholder).
_load_thumbnail_preview_from_file(asset, file, ldr) ==
    IF asset.path # EmptyPath /\ is_hdri_file(asset.path) /\ file.exists
    THEN [raised |-> None, decoded |-> <<asset.path>>,
          pixmap |-> IF hdri_to_pixmap_format(asset.path, file, ldr).raised = None
                     THEN "image" ELSE "null"]
    ELSE [raised |-> None, decoded |-> << >>, pixmap |-> "null"]

\* detail.py:419-453  the preview of display_metadata: the path is
\* get_current_path() for a Texture and asset.path otherwise; an exception of
\* the decoding is caught and "Preview not available" is shown.
display_preview(asset, file, ldr) ==
    LET asset_path == display_metadata(asset)
    IN  IF asset_path.raised # None
        THEN [raised |-> asset_path.raised, decoded |-> << >>, pixmap |-> "null"]
        ELSE IF asset_path.value # EmptyPath /\ file.exists
             THEN [raised |-> None, decoded |-> <<asset_path.value>>,
                   pixmap |-> IF hdri_to_pixmap_format(asset_path.value, file,
                                                       ldr).raised = None
                              THEN "image" ELSE "null"]
             ELSE [raised |-> None, decoded |-> << >>, pixmap |-> "null"]

\* The assets whose preview is drawn: new ones, with one LOD at most.
PreviewAssets ==
    {a \in PlainAssets \cup Textures :
        /\ a.id = None /\ a.tags = << >> /\ a.date_added = None
        /\ a.color_space = None /\ Len(a.lods) <= 1}

PreviewInit ==
    /\ LifecycleInit
    /\ current_asset \in PreviewAssets
    /\ last_call = NoCall
    /\ listing = << >>
    /\ import_log = NoImport

\* assets.py:338-404  HDRI.render_from_hdr / render_from_exr of a path
RenderFromFile(input_path, file, ldr) ==
    /\ last_call = NoCall
    /\ last_call' = [op |-> "_render_from_file", input_path |-> input_path,
                     file |-> file, ldr |-> ldr,
                     out |-> _render_from_file(input_path, file, ldr)]
    /\ UNCHANGED <<current_asset, importVars, search>>
    /\ UNCHANGED lifecycleVars

\* thumbnail.py:169-187: the thumbnail of the asset is drawn
LoadThumbnail(file, ldr) ==
    /\ last_call = NoCall
    /\ last_call' = [op |-> "thumbnail", file |-> file, ldr |-> ldr,
                     view |-> _load_thumbnail_preview_from_file(current_asset,
                                                                file, ldr)]
    /\ UNCHANGED <<current_asset, importVars, search>>
    /\ UNCHANGED lifecycleVars

\* detail.py:398-453: the detail view shows the asset
DisplayPreview(file, ldr) ==
    /\ last_call = NoCall
    /\ last_call' = [op |-> "detail", file |-> file, ldr |-> ldr,
                     view |-> display_preview(current_asset, file, ldr)]
    /\ UNCHANGED <<current_asset, importVars, search>>
    /\ UNCHANGED lifecycleVars

PreviewNext ==
    \/ \E input_path \in {rock, rock_2K, rock_4k, rock_png}, file \in DiskFiles :
          \E ldr \in LdrArrays(file.shape) : RenderFromFile(input_path, file, ldr)
    \/ \E file \in DiskFiles :
          \E ldr \in LdrArrays(file.shape) : LoadThumbnail(file, ldr)
    \/ \E file \in DiskFiles :
          \E ldr \in LdrArrays(file.shape) : DisplayPreview(file, ldr)

PreviewSpec == PreviewInit /\ [][PreviewNext]_vars

(***************************************************************************)
(* The search box (core/base_presenter.py:306-320). Time is counted in     *)
(* periods of 100 ms.                                                      *)
(***************************************************************************)

\* base_presenter.py:306  delay: int = 200
SearchDelay == 2

SearchTexts == {"r", "ro"}

\* base_presenter.py:306-313  on_search_changed: the text is kept and the
\* single-shot timer is started; QTimer.start stops a running timer first.
on_search_changed_NoRestart(s, text) ==
    [s EXCEPT !.pending = text,
              !.active = TRUE,
              !.remaining = IF s.active THEN @ ELSE SearchDelay]
on_search_changed(s, text) ==
    [s EXCEPT !.pending = text, !.active = TRUE, !.remaining = SearchDelay]

\* base_presenter.py:315-320  _trigger_search, the slot of the timer's timeout:
\* search_assets(pending text); a single-shot timer is stopped by its timeout.
_trigger_search(s) ==
    [s EXCEPT !.active = FALSE, !.sent = Append(@, s.pending)]

\* main_widget.py: search_text_changed -> on_search_changed(text). The timeout
\* of a timer that has run out is delivered before a later change of the text.
OnSearchChanged(text) ==
    /\ Len(search.typed) < MaxChanges
    /\ ~(search.active /\ search.remaining = 0)
    /\ search' = [on_search_changed(search, text) EXCEPT
                    !.typed = Append(@, text),
                    !.since = 0,
                    !.bursts = IF search.active THEN @ ELSE @ + 1]
    /\ UNCHANGED <<current_asset, last_call, importVars>>
    /\ UNCHANGED lifecycleVars

\* 100 ms pass while the timer runs.
TimePasses ==
    /\ search.active
    /\ search.remaining > 0
    /\ search' = [search EXCEPT !.remaining = @ - 1,
                                !.since = IF @ < SearchDelay THEN @ + 1 ELSE @]
    /\ UNCHANGED <<current_asset, last_call, importVars>>
    /\ UNCHANGED lifecycleVars

\* The timer runs out: timeout -> _trigger_search
TimerTimeout ==
    /\ search.active
    /\ search.remaining = 0
    /\ search' = _trigger_search(search)
    /\ UNCHANGED <<current_asset, last_call, importVars>>
    /\ UNCHANGED lifecycleVars

SearchNext ==
    \/ \E text \in SearchTexts : OnSearchChanged(text)
    \/ TimePasses
    \/ TimerTimeout

SearchSpec == Init /\ [][SearchNext]_vars

(***************************************************************************)
(* Specifications                                                          *)
(***************************************************************************)
Next ==
    \/ ServerListen
    \/ ServerStartFails
    \/ GetClients
    \/ Shutdown
    \/ \E o \in Origins : SleepReturns(o)
    \/ \E o \in Origins : Terminate(o)
    \/ \E c \in ClientIds : RegisterSet(c)
    \/ \E c \in ClientIds : RegisterReturn(c)
    \/ \E c \in ClientIds : UnregisterPop(c)
    \/ \E c \in ClientIds : UnregisterCheck(c)
    \/ \E c \in ClientIds : Run(c)
    \/ \E c \in ClientIds : StartServerProbe(c)
    \/ \E c \in ClientIds : StartServerSpawn(c)
    \/ \E c \in ClientIds : WaitForServer(c)
    \/ \E c \in ClientIds : SendRegister(c)
    \/ \E c \in ClientIds : RegisterReply(c)
    \/ \E c \in ClientIds : CloseEvent(c)
    \/ \E c \in ClientIds : AboutToQuit(c)
    \/ \E c \in ClientIds : WidgetClosed(c)
    \/ \E c \in ClientIds : UnregisterReply(c)

Spec == Init /\ [][Next]_vars

\* The event loop runs a coroutine it has started to its return; the operating
\* system runs a started thread; uvicorn's loop acts on a received SIGTERM the
\* next time it is between two handlers.
FairSpec ==
    /\ Spec
    /\ \A c \in ClientIds : WF_vars(RegisterReturn(c))
    /\ \A c \in ClientIds : WF_vars(UnregisterCheck(c))
    /\ \A o \in Origins : WF_vars(SleepReturns(o))
    /\ \A o \in Origins : SF_vars(Terminate(o))

TypeOK ==
    /\ alive \in BOOLEAN
    /\ starting \in 0..MaxProcs
    /\ Keys(clients) \subseteq ClientIds
    /\ sleeping \in [Origins -> 0..MaxThreads]
    /\ awake \in [Origins -> 0..MaxThreads]
    /\ TotalThreads <= MaxThreads
    /\ terminated \in [by : Origins \cup {"none"}, registered : SUBSET ClientIds]
    /\ conn \in [ClientIds -> {"none", "reg_sent", "reg_run", "unreg_sent",
                               "unreg_run", "ok", "err"}]
    /\ lastCall \in [ClientIds -> {"none", "register", "unregister"}]
    /\ shutdownCalled \in BOOLEAN
    /\ pc \in [ClientIds -> Resting \cup {"probe", "spawn", "wait", "register",
                  "reg_wait", "unreg_close", "unreg_quit", "unreg_widget",
                  "window_closed"}]
    /\ elapsed \in [ClientIds -> 0..MaxWaitPolls]
    /\ server_proc \in [ClientIds -> {"None", "Popen"}]
    /\ probed \in [ClientIds -> {"none", "first", "wait"}]
    /\ unregistered \in [ClientIds -> BOOLEAN]
    /\ widgets \in [ClientIds -> 0..MaxWidgets]

(***************************************************************************)
(* Properties                                                              *)
(***************************************************************************)

Registered == {c \in ClientIds : lastCall[c] = "register"}

\* C1: while a backend serves, the keys of `clients` are exactly the ids whose
\* most recent handled call was a register, each key once; and a key leaves the
\* dict of a serving backend only in the clients.pop of an unregister for that id.
C1_RegisteredSet ==
    /\ [](alive => /\ Keys(clients) = Registered
                   /\ Len(clients) = Cardinality(Keys(clients)))
    /\ [][\A c \in ClientIds :
            (alive' /\ c \in Keys(clients) /\ c \notin Keys(clients'))
               => (conn[c] = "unreg_sent" /\ conn'[c] = "unreg_run")]_vars

\* A registered, then B, then A unregistered: only B is left and no shutdown
\* thread was started.
C1_Witness ==
    /\ alive
    /\ clients = <<"202_hou">>
    /\ lastCall["101_desktop"] = "unregister"
    /\ conn["101_desktop"] = "ok"
    /\ TotalThreads = 0

C3_TerminatesOnlyWhenEmpty ==
    terminated.by = "unregister" => terminated.registered = {}

\* C4: once the dict of a serving backend is empty after an unregister, the
\* backend is eventually ended, unless a client registers again.
C4_EventuallyTerminates ==
    (alive /\ clients = << >> /\ \E c \in ClientIds : lastCall[c] = "unregister")
        ~> (~alive \/ clients # << >>)

\* The backend was ended through the unregister path with nobody registered.
C4_Witness ==
    /\ ~alive
    /\ terminated.by = "unregister"
    /\ terminated.registered = {}

\* C5: the handlers of concurrent register and unregister requests never
\* overlap, so the dict is the result of the requests in the order the event
\* loop took them; an unregister decides on the thread with the dict exactly as
\* its own clients.pop left it.
C5_Serialized ==
    /\ Cardinality({c \in ClientIds : conn[c] \in {"reg_run", "unreg_run"}}) <= 1
    /\ \A c \in ClientIds : conn[c] = "unreg_run" => clients = afterPop[c]

\* An unregister is between its pop and its decision while the other client's
\* register request is waiting for the event loop.
C5_Witness ==
    \E a, b \in ClientIds :
        /\ a # b
        /\ conn[a] = "unreg_run"
        /\ afterPop[a] = << >>
        /\ conn[b] = "reg_sent"

\* C6: at most one backend process exists (spawned or serving) at any time.
C6_AtMostOneBackend ==
    starting + (IF alive THEN 1 ELSE 0) <= 1

\* C7: a start-up whose first probe succeeded has spawned nothing, and a
\* register request is sent only by a start-up one of whose probes succeeded.
C7_RegisterAfterProbe ==
    \A c \in ClientIds :
        /\ probed[c] = "first" => server_proc[c] = "None"
        /\ pc[c] \in {"register", "reg_wait"} => probed[c] \in {"first", "wait"}
        /\ conn[c] \in {"reg_sent", "reg_run"} => probed[c] \in {"first", "wait"}

\* One client registers after its first probe succeeded, the other after a
\* probe of its spawn-wait loop succeeded.
C7_Witness ==
    \E a, b \in ClientIds :
        /\ pc[a] = "reg_wait" /\ probed[a] = "first" /\ server_proc[a] = "None"
        /\ pc[b] = "reg_wait" /\ probed[b] = "wait" /\ server_proc[b] = "Popen"

\* C8: _start_server raises only when the whole timeout has passed without a
\* successful probe (earlier failed probes are retried); when the timeout has
\* passed it does raise; and a run() that raised there has sent no register
\* request, sends none and opens no widget.
C8_StartupTimeoutFatal ==
    /\ [](\A c \in ClientIds :
            pc[c] = "startup_error" => (conn[c] = "none" /\ probed[c] = "none"))
    /\ [][\A c \in ClientIds :
            /\ (pc[c] = "wait" /\ pc'[c] = "startup_error")
                  => elapsed[c] >= MaxWaitPolls
            /\ (pc[c] = "wait" /\ elapsed[c] >= MaxWaitPolls)
                  => pc'[c] \in {"wait", "startup_error"}
            /\ (pc[c] = "wait" /\ elapsed[c] < MaxWaitPolls /\ ~alive)
                  => pc'[c] = "wait"
            /\ pc[c] = "startup_error"
                  => /\ pc'[c] \notin {"register", "reg_wait"}
                     /\ conn'[c] # "reg_sent"
                     /\ widgets'[c] <= widgets[c]]_vars

\* A start-up has failed after the whole timeout.
C8_Witness ==
    \E c \in ClientIds :
        /\ pc[c] = "startup_error"
        /\ elapsed[c] = MaxWaitPolls
        /\ server_proc[c] = "Popen"

\* C9: no run of a client is aborted by a failed register or unregister request.
C9_NetworkFailureNotFatal ==
    \A c \in ClientIds : pc[c] # "register_error"

\* C10: a handled POST /shutdown starts a shutdown thread whatever the dict
\* holds, and the backend that handled it is eventually ended.
C10_ShutdownTerminates ==
    /\ [][(~shutdownCalled /\ shutdownCalled')
            => sleeping'["shutdown"] = sleeping["shutdown"] + 1]_vars
    /\ (alive /\ shutdownCalled) ~> ~alive

\* The backend was ended through the shutdown endpoint with a client registered.
C10_Witness ==
    /\ ~alive
    /\ terminated.by = "shutdown"
    /\ terminated.registered # {}

\* C11: a lifecycle call repeated on the state its first call left changes
\* neither the dict nor whether the backend is going to be ended: each handler
\* leaves the state its function computes, and that state is a fixed point of
\* the function (register, unregister, shutdown); get_clients changes nothing.
C11_Idempotent ==
    [][/\ \A c \in ClientIds :
            RegisterSet(c) => /\ Surface' = register(Surface, c)
                              /\ register(Surface', c) = Surface'
       /\ \A c \in ClientIds :
            UnregisterCheck(c) => /\ Surface' = unregister(Surface, c)
                                  /\ unregister(Surface', c) = Surface'
       /\ Shutdown => /\ Surface' = shutdown(Surface)
                      /\ shutdown(Surface') = Surface'
       /\ GetClients => /\ Surface' = get_clients(Surface)
                        /\ get_clients(Surface') = Surface']_vars

\* The Houdini session has opened two panels, each run() registering the same
\* id with the same backend, and nothing was unregistered: the dict holds the
\* id once and no shutdown thread exists, as after the first register.
C11_Witness ==
    /\ alive
    /\ widgets["202_hou"] = 2
    /\ lastCall["202_hou"] = "register"
    /\ lastCall["101_desktop"] = "none"
    /\ pc["202_hou"] = "gui"
    /\ clients = <<"202_hou">>
    /\ TotalThreads = 0

\* C12: a gateway operation whose request fails returns its sentinel (the empty
\* list for get_assets and search_assets, None for the others) and raises
\* nothing; update_asset of an asset without id returns None and sends nothing.
C12_GatewaySentinel ==
    /\ (last_call.op \in {"get_assets", "search_assets"} /\ last_call.net = "fail")
          => /\ last_call.call.out.raised = None
             /\ ~last_call.call.out.isNone
             /\ last_call.call.out.value = << >>
    /\ (/\ last_call.op \in {"get_asset_by_id", "add_asset_to_db", "update_asset",
                              "remove_asset_from_db"}
        /\ last_call.net = "fail")
          => /\ last_call.call.out.raised = None
             /\ last_call.call.out.isNone
    /\ (last_call.op = "update_asset" /\ current_asset.id = None)
          => /\ ~last_call.call.sent
             /\ last_call.call.out.raised = None
             /\ last_call.call.out.isNone

\* The request of get_assets has failed and the empty list came back.
C12_Witness ==
    /\ last_call.op = "get_assets"
    /\ last_call.net = "fail"
    /\ last_call.call.sent
    /\ last_call.call.out.value = << >>

\* C13: the payload of an asset has the key "id" exactly when include_id is
\* true, and the body add_asset_to_db posts never has it.
C13_IdOnlyIfIncluded ==
    /\ last_call.op = "to_api_payload"
          => (("id" \in DOMAIN last_call.out.value) <=> last_call.include_id)
    /\ last_call.op = "add_asset_to_db"
          => /\ last_call.call.sent
             /\ "id" \notin DOMAIN last_call.call.body

\* An asset that carries an id was posted, and the body has no id.
C13_Witness ==
    /\ last_call.op = "add_asset_to_db"
    /\ current_asset.id # None
    /\ last_call.call.sent
    /\ DOMAIN last_call.call.body =
         {"path", "tags", "preview_image_file_path", "date_added"}

\* C14: an asset built from the asset's own payload (include_id=True), by its
\* class or by the gateway, is built without an exception and equals the
\* asset in every field, class, LOD dict, current LOD and color space included.
C14_RoundTrip ==
    last_call.op \in {"from_api_payload", "_build_asset_from_data"}
        => /\ last_call.out.raised = None
           /\ last_call.out.value = current_asset

C16_RemoveLod ==
    [][\A k \in LodLevels :
          RemoveLod(k) =>
            /\ last_call'.value <=> dict_has(current_asset.lods, k)
            /\ last_call'.value =>
                  /\ dict_keys(current_asset'.lods) = dict_keys(current_asset.lods) \ {k}
                  /\ \A j \in dict_keys(current_asset'.lods) :
                        dict_get(current_asset'.lods, j) = dict_get(current_asset.lods, j)
                  /\ current_asset'.current_lod =
                        IF current_asset.current_lod = k THEN None
                        ELSE current_asset.current_lod
            /\ ~last_call'.value =>
                  /\ current_asset'.lods = current_asset.lods
                  /\ current_asset'.current_lod = current_asset.current_lod]_vars

\* One of two LODs was removed; the other is left and is the selected one.
C16_Witness ==
    /\ IsTexture(current_asset)
    /\ last_call.op = "remove_lod"
    /\ last_call.value
    /\ Len(current_asset.lods) = 1
    /\ current_asset.current_lod # None
    /\ current_asset.current_lod # last_call.lod_level

\* C17 as stated: remove_lod(key) right after add_lod(key, path) leaves lods as
\* it was before the add_lod, for every key.
C17_AddThenRemoveRestores ==
    [][\A k \in LodLevels :
          (RemoveLod(k) /\ last_call.op = "add_lod" /\ last_call.lod_level = k)
             => current_asset'.lods = last_call.before]_vars

\* C17 as amended: remove_lod(key) right after add_lod(key, path) leaves lods
\* as it was before the add_lod, for every key that was not in lods then.
C17_AddThenRemoveNewKey ==
    [][\A k \in LodLevels :
          (/\ RemoveLod(k)
           /\ last_call.op = "add_lod"
           /\ last_call.lod_level = k
           /\ ~dict_has(last_call.before, k))
             => current_asset'.lods = last_call.before]_vars

\* A level was added to a Texture that had one other LOD and removed again.
C17_Witness ==
    /\ last_call.op = "remove_lod"
    /\ last_call.undoes
    /\ Len(last_call.before) = 1
    /\ ~dict_has(last_call.before, last_call.lod_level)

\* C18: for a Texture the detail view gets from get_current_path() the path
\* lods has for current_lod when current_lod is set, and the base path
\* otherwise.
C18_GetCurrentPath ==
    (last_call.op = "display_metadata" /\ IsTexture(current_asset))
        => /\ last_call.out.raised = None
           /\ last_call.out.value =
                 IF current_asset.current_lod # None
                 THEN dict_get(current_asset.lods, current_asset.current_lod)
                 ELSE current_asset.path

\* C19: a directory whose .hdr/.exr files are two or more files of one base
\* name, each with a resolution tag of its own, is imported as one asset whose
\* lods maps each tag to its file and whose current_lod is the first tag in
\* sorted order, in whatever order the files are listed.
C19_ImportTaggedGroup ==
    LET files == SelectSeq(listing, is_hdri_file)
        base(f) == _extract_base_name_and_resolution(f)[1]
        tag(f) == _extract_base_name_and_resolution(f)[2]
        tags == {tag(files[i]) : i \in DOMAIN files}
        Rank(t) == CASE t = "1k" -> 1 [] t = "2k" -> 2 [] t = "4k" -> 4 [] OTHER -> 0
    IN  (/\ import_log.done
         /\ import_log.source = "directory"
         /\ Len(files) >= 2
         /\ \A i \in DOMAIN files : base(files[i]) = base(files[1])
         /\ \A i \in DOMAIN files : tag(files[i]) # None
         /\ Cardinality(tags) = Len(files))
        => /\ import_log.raised = None
           /\ Len(import_log.assets) = 1
           /\ dict_keys(import_log.assets[1].lods) = tags
           /\ \A i \in DOMAIN files :
                 dict_get(import_log.assets[1].lods, tag(files[i])) = files[i]
           /\ \A t \in tags : Rank(import_log.assets[1].current_lod) <= Rank(t)

\* C20: a directory whose .hdr/.exr files are one untagged file and one or
\* more tagged files of the same base name is imported as one asset whose path
\* is the untagged file and whose lods holds the tagged files and only them.
C20_ImportBaseAndTagged ==
    LET files == SelectSeq(listing, is_hdri_file)
        base(f) == _extract_base_name_and_resolution(f)[1]
        tag(f) == _extract_base_name_and_resolution(f)[2]
        untagged == {i \in DOMAIN files : tag(files[i]) = None}
        tagged == DOMAIN files \ untagged
    IN  (/\ import_log.done
         /\ import_log.source = "directory"
         /\ Cardinality(untagged) = 1
         /\ tagged # {}
         /\ \A i \in DOMAIN files : base(files[i]) = base(files[1])
         /\ \A i, j \in tagged : i # j => tag(files[i]) # tag(files[j]))
        => /\ import_log.raised = None
           /\ Len(import_log.assets) = 1
           /\ \A i \in untagged : import_log.assets[1].path = files[i]
           /\ dict_keys(import_log.assets[1].lods) = {tag(files[i]) : i \in tagged}
           /\ \A i \in tagged :
                 dict_get(import_log.assets[1].lods, tag(files[i])) = files[i]
           /\ \A i \in untagged, e \in DOMAIN import_log.assets[1].lods :
                 import_log.assets[1].lods[e][2] # files[i]

\* C21: a directory whose .hdr/.exr files have pairwise distinct base names
\* (every group has one entry) is imported as one asset per file, each with the
\* file as its path, an empty lods and no current_lod.
C21_ImportSingles ==
    LET files == SelectSeq(listing, is_hdri_file)
        base(f) == _extract_base_name_and_resolution(f)[1]
    IN  (/\ import_log.done
         /\ import_log.source = "directory"
         /\ files # << >>
         /\ \A i, j \in DOMAIN files : i # j => base(files[i]) # base(files[j]))
        => /\ import_log.raised = None
           /\ Len(import_log.assets) = Len(files)
           /\ \A i \in DOMAIN files :
                 /\ import_log.assets[i].path = files[i]
                 /\ import_log.assets[i].lods = << >>
                 /\ import_log.assets[i].current_lod = None

\* C27: in a directory import every group is posted whatever became of the
\* groups before it, imported_count is the number of assets the backend
\* created, and skipped_count the number of files that are not .hdr/.exr.
C27_ImportCounts ==
    LET files == SelectSeq(listing, is_hdri_file)
    IN  (import_log.done /\ import_log.source = "directory")
        => /\ Len(import_log.posted) = Len(_group_files_by_lod(files))
           /\ import_log.imported_count = import_log.created
           /\ import_log.skipped_count = Len(listing) - Len(files)

\* C28: after a directory import every .hdr/.exr file of the listing is the
\* path or a lods entry of exactly one asset that was produced.
C28_ImportLosesNoFile ==
    LET files == SelectSeq(listing, is_hdri_file)
        holds(a, f) == \/ a.path = f
                       \/ \E e \in DOMAIN a.lods : a.lods[e][2] = f
    IN  (import_log.done /\ import_log.source = "directory")
        => \A i \in DOMAIN files :
              Cardinality({n \in DOMAIN import_log.assets :
                              holds(import_log.assets[n], files[i])}) = 1

\* C30: the asset that saving the edits of the detail view yields has the id
\* of the asset that was shown and its date_added and preview_image_file_path,
\* the fields the view does not let the user edit.
C30_SaveKeepsUnedited ==
    (last_call.op = "_on_save_clicked" /\ last_call.saved)
        => /\ current_asset.id = last_call.kept.id
           /\ current_asset.date_added = last_call.kept.date_added
           /\ current_asset.preview_image_file_path =
                 last_call.kept.preview_image_file_path

\* C22: when a Texture that has LODs, a current LOD and a color space is
\* posted through the gateway, a later get of the created asset returns an
\* asset with the same lods, current_lod and color_space.
C22_LodsPersisted ==
    (/\ last_call.op = "create_asset"
     /\ IsTexture(current_asset)
     /\ current_asset.lods # << >>
     /\ current_asset.current_lod # None
     /\ current_asset.color_space # None)
        => /\ last_call.call.out.raised = None
           /\ ~last_call.call.out.isNone
           /\ last_call.call.out.value.lods = current_asset.lods
           /\ last_call.call.out.value.current_lod = current_asset.current_lod
           /\ last_call.call.out.value.color_space = current_asset.color_space

C25_Debounce ==
    [][/\ Len(search.sent) + (IF search.active THEN 1 ELSE 0) = search.bursts
       /\ Len(search'.sent) + (IF search'.active THEN 1 ELSE 0) = search'.bursts
       /\ search'.sent # search.sent
            => /\ search.since = SearchDelay
               /\ search'.sent = Append(search.sent, search.typed[Len(search.typed)])
               /\ ~search'.active]_vars

\* Three changes in one burst, the last to another text than the first, and
\* the one search that followed them.
C25_Witness ==
    /\ Len(search.typed) = 3
    /\ search.typed[1] # search.typed[3]
    /\ search.bursts = 1
    /\ ~search.active
    /\ search.sent = <<search.typed[3]>>


\* C23: the file that is decoded for the preview of a Texture, in its thumbnail
\* and in the detail view, the file being an image on disk, is the LOD map's
\* path for current_lod when current_lod is set, and the base path when it is
\* unset.
C23_PreviewOfSelectedLod ==
    (/\ last_call.op \in {"thumbnail", "detail"}
     /\ IsTexture(current_asset)
     /\ last_call.file.readable)
    => /\ last_call.view.raised = None
       /\ last_call.view.decoded =
            <<IF current_asset.current_lod # None
              THEN dict_get(current_asset.lods, current_asset.current_lod)
              ELSE current_asset.path>>

\* C24: for a .hdr or .exr path whose file decodes, decoding and tone mapping
\* return, without raising, a buffer of the height and width of the file, of
\* one value for every pixel, every value a number from 0 to 255, whatever
\* the tone mapper of the library computed, NaN included.
C24_ToneMappedBuffer ==
    (/\ last_call.op = "_render_from_file"
     /\ is_hdri_file(last_call.input_path)
     /\ last_call.file.readable
     /\ (Lower(last_call.input_path.suffix) = ".exr"
           => ({"R", "G", "B"} \subseteq last_call.file.channels
               \/ "Y" \in last_call.file.channels)))
    => /\ last_call.out.raised = None
       /\ last_call.out.value.shape = last_call.file.shape
       /\ DOMAIN last_call.out.value.data
            = 1..(last_call.file.shape[1] * last_call.file.shape[2])
       /\ \A i \in DOMAIN last_call.out.value.data :
             /\ ~last_call.out.value.data[i].nan
             /\ last_call.out.value.data[i].v \in 0..255

C24_Witness ==
    /\ last_call.op = "_render_from_file"
    /\ last_call.out.raised = None
    /\ last_call.file.shape = <<2, 1>>
    /\ last_call.file.channels = {"Y"}
    /\ last_call.ldr[1].nan
    /\ last_call.ldr[2].v > 255

\* C26: the render call raises, and returns no image, for an unreadable file,
\* an unsupported suffix and an EXR file with neither R, G, B nor Y; it decodes
\* an EXR file from R, G, B when it has all three and from Y three times
\* otherwise; and the thumbnail and the detail view, when the decoding of
\* their file fails, raise nothing and show the placeholder.
C26_FailurePropagatesToPlaceholder ==
    /\ last_call.op = "_render_from_file" =>
          /\ (\/ ~last_call.file.readable
               \/ ~is_hdri_file(last_call.input_path)
               \/ /\ Lower(last_call.input_path.suffix) = ".exr"
                  /\ ~({"R", "G", "B"} \subseteq last_call.file.channels)
                  /\ "Y" \notin last_call.file.channels)
                => last_call.out.raised # None
          /\ (/\ Lower(last_call.input_path.suffix) = ".exr"
               /\ last_call.out.raised = None)
                => last_call.out.value.planes =
                     IF {"R", "G", "B"} \subseteq last_call.file.channels
                     THEN <<"R", "G", "B">> ELSE <<"Y", "Y", "Y">>
    /\ (/\ last_call.op \in {"thumbnail", "detail"}
         /\ last_call.file.exists
         /\ ~last_call.file.readable)
          => /\ last_call.view.raised = None
             /\ last_call.view.pixmap = "null"

====
